---------------------------- MODULE Spec2Model ----------------------------
(***************************************************************************)
(* A model of rdbtools/parser.py: the streaming parser of Redis RDB dump   *)
(* files (RdbParser) and the event stream it hands to an RdbCallback.      *)
(*                                                                         *)
(* A file is a sequence of bytes 0..255 with a cursor `pos` (the number of *)
(* bytes consumed so far).  Every reader is an operator that takes the     *)
(* stream and the cursor and returns a record holding the decoded value,   *)
(* the new cursor and whether the read raised.  Python 2 semantics are     *)
(* followed (the source uses xrange and compares f.read(5) with a str);    *)
(* struct's native formats are taken as little-endian, standard sizes.     *)
(***************************************************************************)
EXTENDS Integers, Sequences, FiniteSets, TLC

(***************************************************************************)
(* Program constants (parser.py:12-40).                                    *)
(***************************************************************************)
REDIS_RDB_6BITLEN == 0
REDIS_RDB_14BITLEN == 1
REDIS_RDB_32BITLEN == 2
REDIS_RDB_ENCVAL == 3

REDIS_RDB_OPCODE_EXPIRETIME_MS == 252
REDIS_RDB_OPCODE_EXPIRETIME == 253
REDIS_RDB_OPCODE_SELECTDB == 254
REDIS_RDB_OPCODE_EOF == 255

REDIS_RDB_TYPE_STRING == 0
REDIS_RDB_TYPE_LIST == 1
REDIS_RDB_TYPE_SET == 2
REDIS_RDB_TYPE_ZSET == 3
REDIS_RDB_TYPE_HASH == 4
REDIS_RDB_TYPE_HASH_ZIPMAP == 9
REDIS_RDB_TYPE_LIST_ZIPLIST == 10
REDIS_RDB_TYPE_SET_INTSET == 11
REDIS_RDB_TYPE_ZSET_ZIPLIST == 12
REDIS_RDB_TYPE_HASH_ZIPLIST == 13

REDIS_RDB_ENC_INT8 == 0
REDIS_RDB_ENC_INT16 == 1
REDIS_RDB_ENC_INT32 == 2
REDIS_RDB_ENC_LZF == 3

TypeTags == {0, 1, 2, 3, 4, 9, 10, 11, 12, 13}

\* DATA_TYPE_MAPPING: the logical type of a type tag (a KeyError elsewhere).
DATA_TYPE_MAPPING(t) ==
    CASE t = 0 -> "string"
      [] t \in {1, 10} -> "list"
      [] t \in {2, 11} -> "set"
      [] t \in {3, 12} -> "sortedset"
      [] t \in {4, 9, 13} -> "hash"

(***************************************************************************)
(* Values handed to the callbacks.  Python keeps strings, integers, floats *)
(* and None in one cell; here a value is a record with a tag.              *)
(***************************************************************************)
Bytes(b) == [t |-> "bytes", b |-> b, v |-> 0]
IntV(n) == [t |-> "int", b |-> <<>>, v |-> n]
FloatV(n) == [t |-> "float", b |-> <<>>, v |-> n]
NoneV == [t |-> "none", b |-> <<>>, v |-> 0]

Min(a, b) == IF a < b THEN a ELSE b

(***************************************************************************)
(* The byte source: f.read(n) returns at most n bytes and never fails; the *)
(* cursor stops at the end of the source.                                  *)
(***************************************************************************)
FRead(f, pos, n) ==
    [bytes |-> SubSeq(f, pos + 1, Min(pos + n, Len(f))), pos |-> Min(pos + n, Len(f))]

\* The little-endian value of a byte sequence.
RECURSIVE LE(_)
LE(b) == IF b = <<>> THEN 0 ELSE Head(b) + 256 * LE(Tail(b))

\* struct.unpack(fmt, f.read(n)): raises struct.error unless exactly n bytes
\* were read; the cursor has moved over the bytes that were there.
Unpack(f, pos, n) ==
    [ok |-> Len(FRead(f, pos, n).bytes) = n,
     bytes |-> FRead(f, pos, n).bytes,
     pos |-> FRead(f, pos, n).pos]

\* The two's complement value of n little-endian bytes.  A top byte that
\* only extends the sign of the byte below it (255 over a byte >= 128, 0
\* over a byte < 128) is dropped first, which leaves the value as it is, so
\* that a 64-bit pattern of a small number is computed in small numbers.
RECURSIVE Pow256(_)
Pow256(n) == IF n = 0 THEN 1 ELSE 256 * Pow256(n - 1)

RECURSIVE SignedLE(_)
SignedLE(b) ==
    IF Len(b) = 1 THEN (IF b[1] >= 128 THEN b[1] - 256 ELSE b[1])
    ELSE IF b[Len(b)] = 255 /\ b[Len(b) - 1] >= 128 THEN SignedLE(SubSeq(b, 1, Len(b) - 1))
    ELSE IF b[Len(b)] = 0 /\ b[Len(b) - 1] < 128 THEN SignedLE(SubSeq(b, 1, Len(b) - 1))
    ELSE IF b[Len(b)] >= 128
    THEN (b[Len(b)] - 256) * Pow256(Len(b) - 1) + LE(SubSeq(b, 1, Len(b) - 1))
    ELSE b[Len(b)] * Pow256(Len(b) - 1) + LE(SubSeq(b, 1, Len(b) - 1))

\* The value struct.unpack gives for the bytes r that were read: unsigned
\* (B, H, I, Q), signed (b, h, i, q), big-endian unsigned ('>I').
Unsigned(r) == [ok |-> r.ok, val |-> IF r.ok THEN LE(r.bytes) ELSE 0, pos |-> r.pos]

Signed(r) == [ok |-> r.ok, val |-> IF r.ok THEN SignedLE(r.bytes) ELSE 0, pos |-> r.pos]

BigEndian(r) ==
    [ok |-> r.ok,
     val |-> IF r.ok THEN LE(<<r.bytes[4], r.bytes[3], r.bytes[2], r.bytes[1]>>) ELSE 0,
     pos |-> r.pos]

UnpackU(f, pos, n) == Unsigned(Unpack(f, pos, n))

UnpackS(f, pos, n) == Signed(Unpack(f, pos, n))

read_signed_char(f, pos) == UnpackS(f, pos, 1)
read_unsigned_char(f, pos) == UnpackU(f, pos, 1)
read_signed_short(f, pos) == UnpackS(f, pos, 2)
read_unsigned_short(f, pos) == UnpackU(f, pos, 2)
read_signed_int(f, pos) == UnpackS(f, pos, 4)
read_unsigned_int(f, pos) == UnpackU(f, pos, 4)
read_signed_long(f, pos) == UnpackS(f, pos, 8)
read_unsigned_long(f, pos) == UnpackU(f, pos, 8)

\* struct.unpack('>I', f.read(4)): big-endian.
read_big_endian_unsigned_int(f, pos) == BigEndian(Unpack(f, pos, 4))

\* Shifted24 that takes the three bytes as an unsigned number.
Shifted24_Unsigned(r) ==
    [ok |-> r.ok, val |-> IF r.ok THEN LE(r.bytes) ELSE 0, pos |-> r.pos]

\* read_24bit_signed_number: '0' (0x30) is put before the three bytes r, the
\* four are unpacked as a signed int and shifted right by 8 (arithmetic).
Shifted24(r) ==
    [ok |-> r.ok,
     val |-> IF r.ok THEN SignedLE(<<48>> \o r.bytes) \div 256 ELSE 0,
     pos |-> r.pos]

read_24bit_signed_number(f, pos) == Shifted24(Unpack(f, pos, 3))

\* skip(f, free): f.read(free) when free is non-zero; a short read passes.
skip(f, pos, free) == IF free # 0 THEN FRead(f, pos, free).pos ELSE pos

\* Swapped that leaves the bytes in the order they were read in: the
\* length read as a little-endian number.
Swapped_NoSwap(r) ==
    [ok |-> r.ok,
     hi |-> IF r.ok THEN r.bytes[4] * 256 + r.bytes[3] ELSE 0,
     lo |-> IF r.ok THEN r.bytes[2] * 256 + r.bytes[1] ELSE 0,
     pos |-> r.pos]

\* ntohl: val is the native (little-endian) unsigned int of the four bytes
\* r that read_unsigned_int unpacks, so val & 0xff is the first byte read
\* and (val & 0xff000000) >> 24 the fourth; new_val has them in the
\* opposite order.  new_val ranges up to 2^32 - 1 and is kept as its two
\* halves of 16 bits: new_val = hi * 65536 + lo.
Swapped(r) ==
    [ok |-> r.ok,
     hi |-> IF r.ok THEN r.bytes[1] * 256 + r.bytes[2] ELSE 0,
     lo |-> IF r.ok THEN r.bytes[3] * 256 + r.bytes[4] ELSE 0,
     pos |-> r.pos]

ntohl(f, pos) == Swapped(Unpack(f, pos, 4))


(***************************************************************************)
(* Length / string codec.                                                  *)
(***************************************************************************)
\* The tuple (length, is_encoded) read_length_with_encoding returns, with
\* the cursor after it.  The length is held as two halves of 16 bits, hi
\* and lo, since the 32-bit class reaches 2^32 - 1; LengthOf is the number.
LengthOf(tup) == tup.hi * 65536 + tup.lo

\* The 14-bit class: six bits of the first byte r0 over the byte r1.
Length14(r0, r1) ==
    [ok |-> r1.ok, hi |-> 0, lo |-> (r0.val % 64) * 256 + r1.val,
     is_encoded |-> FALSE, pos |-> r1.pos]

\* The 32-bit class: what ntohl gave.
Length32(n) == [ok |-> n.ok, hi |-> n.hi, lo |-> n.lo, is_encoded |-> FALSE, pos |-> n.pos]

\* read_length_with_encoding after its first byte r0, whose top two bits
\* select the class.
DecodeLength(f, r0) ==
    IF ~r0.ok THEN [ok |-> FALSE, hi |-> 0, lo |-> 0, is_encoded |-> FALSE, pos |-> r0.pos]
    ELSE IF r0.val \div 64 = REDIS_RDB_ENCVAL
    THEN [ok |-> TRUE, hi |-> 0, lo |-> r0.val % 64, is_encoded |-> TRUE, pos |-> r0.pos]
    ELSE IF r0.val \div 64 = REDIS_RDB_6BITLEN
    THEN [ok |-> TRUE, hi |-> 0, lo |-> r0.val % 64, is_encoded |-> FALSE, pos |-> r0.pos]
    ELSE IF r0.val \div 64 = REDIS_RDB_14BITLEN
    THEN Length14(r0, read_unsigned_char(f, r0.pos))
    ELSE Length32(ntohl(f, r0.pos))

read_length_with_encoding(f, pos) == DecodeLength(f, read_unsigned_char(f, pos))

\* read_length: the first component of the tuple.
LengthOnly(tup) == [ok |-> tup.ok, val |-> LengthOf(tup), pos |-> tup.pos]

read_length(f, pos) == LengthOnly(read_length_with_encoding(f, pos))

\* seq[i] of Python: a negative index counts from the end; outside
\* -len .. len-1 it raises IndexError.
PyIndexOk(s, i) == -Len(s) <= i /\ i < Len(s)
PyIndex(s, i) == IF i < 0 THEN s[Len(s) + i + 1] ELSE s[i + 1]

\* lzf_decompress, the literal run: ctrl + 1 bytes of input are appended.
RECURSIVE LzfLiteral(_, _, _, _)
LzfLiteral(in, in_index, out, n) ==
    IF n = 0 THEN [ok |-> TRUE, in_index |-> in_index, out |-> out]
    ELSE IF ~PyIndexOk(in, in_index) THEN [ok |-> FALSE, in_index |-> in_index, out |-> out]
    ELSE LzfLiteral(in, in_index + 1, Append(out, PyIndex(in, in_index)), n - 1)

\* LzfCopy that takes the n bytes from the output as it stood before the
\* copy: out_stream[ref:ref + n] appended at once.
LzfCopy_Slice(out, ref, n) ==
    IF ~PyIndexOk(out, ref) \/ (n > 0 /\ ~PyIndexOk(out, ref + n - 1)) \/ (ref < 0 /\ ref + n > 0)
    THEN [ok |-> FALSE, out |-> out]
    ELSE [ok |-> TRUE,
          out |-> out \o [i \in 1..n |-> PyIndex(out, ref + i - 1)]]

\* lzf_decompress, the back-reference: n times out.append(out[ref]); ref++.
RECURSIVE LzfCopy(_, _, _)
LzfCopy(out, ref, n) ==
    IF n = 0 THEN [ok |-> TRUE, out |-> out]
    ELSE IF ~PyIndexOk(out, ref) THEN [ok |-> FALSE, out |-> out]
    ELSE LzfCopy(Append(out, PyIndex(out, ref)), ref + 1, n - 1)

\* lzf_decompress, the loop over the control bytes.
RECURSIVE LzfLoop(_, _, _)
LzfLoop(in, in_index, out) ==
    IF ~(in_index < Len(in)) THEN [ok |-> TRUE, out |-> out]
    ELSE
      LET ctrl == in[in_index + 1]
          i1 == in_index + 1
      IN  IF ctrl < 32
          THEN LET r == LzfLiteral(in, i1, out, ctrl + 1) IN
               IF r.ok THEN LzfLoop(in, r.in_index, r.out) ELSE [ok |-> FALSE, out |-> r.out]
          ELSE
            LET len0 == ctrl \div 32
                ext == len0 = 7
                extOk == ~ext \/ PyIndexOk(in, i1)
                length == IF ext /\ extOk THEN len0 + PyIndex(in, i1) ELSE len0
                i2 == IF ext THEN i1 + 1 ELSE i1
            IN  IF ~extOk \/ ~PyIndexOk(in, i2) THEN [ok |-> FALSE, out |-> out]
                ELSE LET ref == Len(out) - (ctrl % 32) * 256 - PyIndex(in, i2) - 1
                         r == LzfCopy(out, ref, length + 2)
                     IN  IF r.ok THEN LzfLoop(in, i2 + 1, r.out)
                         ELSE [ok |-> FALSE, out |-> r.out]

\* lzf_decompress after its loop r: the length of the output is compared
\* with the expected one.
LzfChecked(r, expected_length) ==
    IF ~r.ok THEN [ok |-> FALSE, err |-> "IndexError", val |-> NoneV]
    ELSE IF Len(r.out) # expected_length
    THEN [ok |-> FALSE, err |-> "CorruptLzf", val |-> NoneV]
    ELSE [ok |-> TRUE, err |-> "", val |-> Bytes(r.out)]

\* lzf_decompress(compressed, expected_length).
lzf_decompress(compressed, expected_length) ==
    LzfChecked(LzfLoop(compressed, 0, <<>>), expected_length)

\* What read_string returns or raises: struct.error of a short fixed-width
\* read, the integer r that was read, the raw bytes r that were read, the
\* outcome d of lzf_decompress with the cursor p after the compressed run.
Eof(p) == [ok |-> FALSE, err |-> "UnexpectedEof", val |-> NoneV, pos |-> p]

IntRes(r) ==
    IF r.ok THEN [ok |-> TRUE, err |-> "", val |-> IntV(r.val), pos |-> r.pos] ELSE Eof(r.pos)

RawRes(r) == [ok |-> TRUE, err |-> "", val |-> Bytes(r.bytes), pos |-> r.pos]

LzfRes(d, p) == [ok |-> d.ok, err |-> d.err, val |-> d.val, pos |-> p]

\* read_string, REDIS_RDB_ENC_LZF: the compressed length clen and the
\* length l were read; clen bytes are read and decompressed.
ReadLzf(f, clen, l) ==
    IF ~clen.ok THEN Eof(clen.pos)
    ELSE IF ~l.ok THEN Eof(l.pos)
    ELSE LzfRes(lzf_decompress(FRead(f, l.pos, clen.val).bytes, l.val),
                FRead(f, l.pos, clen.val).pos)

\* read_string after read_length_with_encoding gave tup: raw bytes, a
\* signed integer, a decompressed run, or None when the special encoding
\* is none of the four.
DecodeString(f, tup) ==
    IF ~tup.ok THEN Eof(tup.pos)
    ELSE IF tup.is_encoded
    THEN IF LengthOf(tup) = REDIS_RDB_ENC_INT8 THEN IntRes(read_signed_char(f, tup.pos))
         ELSE IF LengthOf(tup) = REDIS_RDB_ENC_INT16 THEN IntRes(read_signed_short(f, tup.pos))
         ELSE IF LengthOf(tup) = REDIS_RDB_ENC_INT32 THEN IntRes(read_signed_int(f, tup.pos))
         ELSE IF LengthOf(tup) = REDIS_RDB_ENC_LZF
         THEN ReadLzf(f, read_length(f, tup.pos),
                      read_length(f, read_length(f, tup.pos).pos))
         ELSE [ok |-> TRUE, err |-> "", val |-> NoneV, pos |-> tup.pos]
    ELSE RawRes(FRead(f, tup.pos, LengthOf(tup)))

read_string(f, pos) == DecodeString(f, read_length_with_encoding(f, pos))

\* skip_string, REDIS_RDB_ENC_LZF: clen and l were read, clen bytes are
\* skipped.
SkipLzf(f, clen, l) ==
    IF ~clen.ok THEN [ok |-> FALSE, err |-> "UnexpectedEof", pos |-> clen.pos]
    ELSE IF ~l.ok THEN [ok |-> FALSE, err |-> "UnexpectedEof", pos |-> l.pos]
    ELSE [ok |-> TRUE, err |-> "", pos |-> skip(f, l.pos, clen.val)]

\* skip_string after read_length_with_encoding gave tup: bytes_to_skip,
\* then skip(f, bytes_to_skip).
SkipEncoded(f, tup) ==
    IF ~tup.ok THEN [ok |-> FALSE, err |-> "UnexpectedEof", pos |-> tup.pos]
    ELSE IF tup.is_encoded
    THEN IF LengthOf(tup) = REDIS_RDB_ENC_INT8
         THEN [ok |-> TRUE, err |-> "", pos |-> skip(f, tup.pos, 1)]
         ELSE IF LengthOf(tup) = REDIS_RDB_ENC_INT16
         THEN [ok |-> TRUE, err |-> "", pos |-> skip(f, tup.pos, 2)]
         ELSE IF LengthOf(tup) = REDIS_RDB_ENC_INT32
         THEN [ok |-> TRUE, err |-> "", pos |-> skip(f, tup.pos, 4)]
         ELSE IF LengthOf(tup) = REDIS_RDB_ENC_LZF
         THEN SkipLzf(f, read_length(f, tup.pos),
                      read_length(f, read_length(f, tup.pos).pos))
         ELSE [ok |-> TRUE, err |-> "", pos |-> skip(f, tup.pos, 0)]
    ELSE [ok |-> TRUE, err |-> "", pos |-> skip(f, tup.pos, LengthOf(tup))]

\* skip_string: the same prefix as read_string, then the skip.
skip_string(f, pos) == SkipEncoded(f, read_length_with_encoding(f, pos))

(***************************************************************************)
(* Conversions of Python used by the parser.                               *)
(***************************************************************************)
IsSpace(c) == c \in {9, 10, 11, 12, 13, 32}
IsDigit(c) == c >= 48 /\ c <= 57

RECURSIVE LStrip(_)
LStrip(b) == IF b # <<>> /\ IsSpace(Head(b)) THEN LStrip(Tail(b)) ELSE b

RECURSIVE RStrip(_)
RStrip(b) ==
    IF b # <<>> /\ IsSpace(b[Len(b)]) THEN RStrip(SubSeq(b, 1, Len(b) - 1)) ELSE b

RECURSIVE DigitsValue(_, _)
DigitsValue(b, acc) ==
    IF b = <<>> THEN acc ELSE DigitsValue(Tail(b), acc * 10 + (Head(b) - 48))

\* int(s) of a str: surrounding white space is dropped, then an optional
\* sign and at least one decimal digit; anything else is a ValueError.
ParseInt(b) ==
    LET s == RStrip(LStrip(b))
        signed == s # <<>> /\ Head(s) \in {43, 45}
        d == IF signed THEN Tail(s) ELSE s
        ok == d # <<>> /\ \A i \in 1..Len(d) : IsDigit(d[i])
    IN  [ok |-> ok,
         val |-> IF ~ok THEN 0
                 ELSE IF signed /\ Head(s) = 45 THEN 0 - DigitsValue(d, 0)
                 ELSE DigitsValue(d, 0)]

\* float(s) of a score: the strings a dump holds here without a fraction or
\* an exponent are the decimal integers, which float() takes as int() does;
\* the value is kept as that number, tagged as a float.
ParseFloat(b) == ParseInt(b)

RECURSIVE Digits(_)
Digits(n) == IF n < 10 THEN <<48 + n>> ELSE Append(Digits(n \div 10), 48 + (n % 10))

\* str(value): a str is itself, an integer its decimal digits, None "None".
PyStr(val) ==
    CASE val.t = "bytes" -> val.b
      [] val.t = "int" -> IF val.v < 0 THEN <<45>> \o Digits(0 - val.v) ELSE Digits(val.v)
      [] val.t = "float" -> IF val.v < 0 THEN <<45>> \o Digits(0 - val.v) \o <<46, 48>>
                            ELSE Digits(val.v) \o <<46, 48>>
      [] val.t = "none" -> <<78, 111, 110, 101>>

\* The truth value of a Python object: "", 0 and None are false.
Truthy(val) ==
    CASE val.t = "bytes" -> val.b # <<>>
      [] val.t = "int" -> val.v # 0
      [] val.t = "float" -> val.v # 0
      [] val.t = "none" -> FALSE

\* The pending expiration: None, or the datetime to_datetime builds from the
\* microseconds since the epoch (whole seconds and the microseconds left).
NoExpiry == [set |-> FALSE, sec |-> 0, usec |-> 0]

to_datetime(usecs_since_epoch) ==
    [set |-> TRUE,
     sec |-> usecs_since_epoch \div 1000000,
     usec |-> usecs_since_epoch % 1000000]

(***************************************************************************)
(* The events the callback receives: the method, its key, its count or     *)
(* database number, up to two values, the expiry and the info dictionary.  *)
(***************************************************************************)
Ev(name, key, n, a, b, exp, enc, size) ==
    [ev |-> name, key |-> key, n |-> n, a |-> a, b |-> b, exp |-> exp,
     enc |-> enc, size |-> size]

EvPlain(name) == Ev(name, NoneV, 0, NoneV, NoneV, NoExpiry, "", 0)
EvDb(name, db) == Ev(name, NoneV, db, NoneV, NoneV, NoExpiry, "", 0)
EvStart(name, key, n, exp, enc, size) == Ev(name, key, n, NoneV, NoneV, exp, enc, size)
EvElem(name, key, a, b) == Ev(name, key, 0, a, b, NoExpiry, "", 0)
EvEnd(name, key) == Ev(name, key, 0, NoneV, NoneV, NoExpiry, "", 0)

\* What a reader of an object returns: the cursor, the events emitted so
\* far, and the exception that ended it, if one did.
Res(ok, err, pos, events) == [ok |-> ok, err |-> err, pos |-> pos, events |-> events]

(***************************************************************************)
(* Type readers of the plain encodings (read_object, tags 0..4).           *)
(***************************************************************************)
\* The loop of a list or a set: n times read_string, then rpush / sadd.
\* ReadElem is one turn of it after its read_string gave val.
RECURSIVE ReadElems(_, _, _, _, _, _)
RECURSIVE ReadElem(_, _, _, _, _, _)
ReadElem(f, n, key, name, evs, val) ==
    IF ~val.ok THEN Res(FALSE, val.err, val.pos, evs)
    ELSE ReadElems(f, val.pos, n - 1, key, name,
                   Append(evs, EvElem(name, key, val.val, NoneV)))

ReadElems(f, pos, n, key, name, evs) ==
    IF n <= 0 THEN Res(TRUE, "", pos, evs)
    ELSE ReadElem(f, n, key, name, evs, read_string(f, pos))

\* The loop of a sorted set: a member, then a score of dbl_length bytes
\* that float() parses.  ReadZsetElem is one turn after the member val.
RECURSIVE ReadZsetElems(_, _, _, _, _)
RECURSIVE ReadZsetElem(_, _, _, _, _)
ReadZsetElem(f, n, key, evs, val) ==
    LET dbl_length == read_unsigned_char(f, val.pos)
        raw == FRead(f, dbl_length.pos, dbl_length.val)
        score == ParseFloat(raw.bytes)
    IN  IF ~val.ok THEN Res(FALSE, val.err, val.pos, evs)
        ELSE IF ~dbl_length.ok THEN Res(FALSE, "UnexpectedEof", dbl_length.pos, evs)
        ELSE IF ~score.ok THEN Res(FALSE, "ValueError", raw.pos, evs)
        ELSE ReadZsetElems(f, raw.pos, n - 1, key,
                           Append(evs, EvElem("zadd", key, FloatV(score.val), val.val)))

ReadZsetElems(f, pos, n, key, evs) ==
    IF n <= 0 THEN Res(TRUE, "", pos, evs)
    ELSE ReadZsetElem(f, n, key, evs, read_string(f, pos))

\* The loop of a hash: a field and a value.  ReadHashElem is one turn
\* after the two reads.
RECURSIVE ReadHashElems(_, _, _, _, _)
RECURSIVE ReadHashElem(_, _, _, _, _, _)
ReadHashElem(f, n, key, evs, field, value) ==
    IF ~field.ok THEN Res(FALSE, field.err, field.pos, evs)
    ELSE IF ~value.ok THEN Res(FALSE, value.err, value.pos, evs)
    ELSE ReadHashElems(f, value.pos, n - 1, key,
                       Append(evs, EvElem("hset", key, field.val, value.val)))

ReadHashElems(f, pos, n, key, evs) ==
    IF n <= 0 THEN Res(TRUE, "", pos, evs)
    ELSE ReadHashElem(f, n, key, evs, read_string(f, pos),
                      read_string(f, read_string(f, pos).pos))

\* After a loop that did not raise, end_X(key) closes the container.
Closed(r, name, key) ==
    IF r.ok THEN Res(TRUE, "", r.pos, Append(r.events, EvEnd(name, key))) ELSE r

(***************************************************************************)
(* Packed containers: the value is read as one string and parsed through   *)
(* a second reader over that buffer.                                       *)
(***************************************************************************)
\* What a reader of a packed container returns: the outcome r of the
\* reader over the buffer, the cursor of the file after raw_string.
InBuffer(raw_string, r) == Res(r.ok, r.err, raw_string.pos, r.events)

\* read_intset, the loop: entries of `encoding` bytes each.
RECURSIVE ReadIntsetElems(_, _, _, _, _, _)
ReadIntsetElems(buff, bpos, n, encoding, key, evs) ==
    IF n <= 0 THEN [ok |-> TRUE, err |-> "", events |-> evs]
    ELSE IF encoding \notin {8, 4, 2} THEN [ok |-> FALSE, err |-> "CorruptIntset", events |-> evs]
    ELSE LET entry == UnpackU(buff, bpos, encoding) IN
         IF ~entry.ok THEN [ok |-> FALSE, err |-> "UnexpectedEof", events |-> evs]
         ELSE ReadIntsetElems(buff, entry.pos, n - 1, encoding, key,
                              Append(evs, EvElem("sadd", key, IntV(entry.val), NoneV)))

\* read_intset after its read_string.  A value that is no str reaches
\* StringIO as str(value) and fails at len(raw_string), if not before,
\* with no event emitted.
IntsetOf(raw_string, key, expiry) ==
    LET buff == PyStr(raw_string.val)
        encoding == read_unsigned_int(buff, 0)
        num_entries == read_unsigned_int(buff, encoding.pos)
        start == EvStart("start_set", key, num_entries.val, expiry, "intset", Len(buff))
    IN  IF ~raw_string.ok THEN Res(FALSE, raw_string.err, raw_string.pos, <<>>)
        ELSE IF ~encoding.ok \/ ~num_entries.ok
        THEN Res(FALSE, "UnexpectedEof", raw_string.pos, <<>>)
        ELSE IF raw_string.val.t # "bytes" THEN Res(FALSE, "TypeError", raw_string.pos, <<>>)
        ELSE Closed(InBuffer(raw_string,
                             ReadIntsetElems(buff, num_entries.pos, num_entries.val,
                                             encoding.val, key, <<start>>)),
                    "end_set", key)

read_intset(f, pos, key, expiry) == IntsetOf(read_string(f, pos), key, expiry)

\* read_ziplist_entry after the header byte hdr: the payload.
ZiplistEntryBody(f, hdr) ==
    LET entry_header == hdr.val IN
    IF ~hdr.ok THEN Eof(hdr.pos)
    ELSE IF entry_header \div 64 = 0 THEN RawRes(FRead(f, hdr.pos, entry_header % 64))
    ELSE IF entry_header \div 64 = 1
    THEN LET b1 == read_unsigned_char(f, hdr.pos) IN
         IF ~b1.ok THEN Eof(b1.pos)
         ELSE RawRes(FRead(f, b1.pos, (entry_header % 64) * 256 + b1.val))
    ELSE IF entry_header \div 64 = 2
    THEN LET l == read_big_endian_unsigned_int(f, hdr.pos) IN
         IF ~l.ok THEN Eof(l.pos) ELSE RawRes(FRead(f, l.pos, l.val))
    ELSE IF entry_header \div 16 = 12 THEN IntRes(read_signed_short(f, hdr.pos))
    ELSE IF entry_header \div 16 = 13 THEN IntRes(read_signed_int(f, hdr.pos))
    ELSE IF entry_header \div 16 = 14 THEN IntRes(read_signed_long(f, hdr.pos))
    ELSE IF entry_header = 240 THEN IntRes(read_24bit_signed_number(f, hdr.pos))
    ELSE IF entry_header = 254 THEN IntRes(read_signed_char(f, hdr.pos))
    ELSE IF entry_header >= 241 /\ entry_header <= 253
    THEN [ok |-> TRUE, err |-> "", val |-> IntV(entry_header - 241), pos |-> hdr.pos]
    ELSE [ok |-> FALSE, err |-> "CorruptZiplist", val |-> NoneV, pos |-> hdr.pos]

\* read_ziplist_entry after the first byte pl0 of prev_length: 254 there
\* announces four more bytes; then the header byte.
ZiplistEntryHeader(f, pl0) ==
    IF ~pl0.ok THEN Eof(pl0.pos)
    ELSE IF pl0.val = 254
    THEN LET pl1 == read_unsigned_int(f, pl0.pos) IN
         IF ~pl1.ok THEN Eof(pl1.pos)
         ELSE ZiplistEntryBody(f, read_unsigned_char(f, pl1.pos))
    ELSE ZiplistEntryBody(f, read_unsigned_char(f, pl0.pos))

\* read_ziplist_entry: prev_length, the header byte, the payload.
read_ziplist_entry(f, pos) == ZiplistEntryHeader(f, read_unsigned_char(f, pos))

\* The header of a ziplist: zlbytes, tail_offset, num_entries.
ZiplistHeader(buff) ==
    LET zlbytes == read_unsigned_int(buff, 0)
        tail_offset == read_unsigned_int(buff, zlbytes.pos)
        num_entries == read_unsigned_short(buff, tail_offset.pos)
    IN  [ok |-> zlbytes.ok /\ tail_offset.ok /\ num_entries.ok,
         num_entries |-> num_entries.val, pos |-> num_entries.pos]

\* ZiplistEnd that reads the last byte and does not look at it.
ZiplistEnd_AnyByte(buff, r, name, key) ==
    IF ~r.ok THEN [ok |-> FALSE, err |-> r.err, events |-> r.events]
    ELSE IF ~read_unsigned_char(buff, r.pos).ok
    THEN [ok |-> FALSE, err |-> "UnexpectedEof", events |-> r.events]
    ELSE [ok |-> TRUE, err |-> "", events |-> Append(r.events, EvEnd(name, key))]

\* The end of a ziplist reader: one byte that must be 255, then end_X(key).
ZiplistEnd(buff, r, name, key) ==
    LET zlist_end == read_unsigned_char(buff, r.pos) IN
    IF ~r.ok THEN [ok |-> FALSE, err |-> r.err, events |-> r.events]
    ELSE IF ~zlist_end.ok THEN [ok |-> FALSE, err |-> "UnexpectedEof", events |-> r.events]
    ELSE IF zlist_end.val # 255 THEN [ok |-> FALSE, err |-> "CorruptZiplist", events |-> r.events]
    ELSE [ok |-> TRUE, err |-> "", events |-> Append(r.events, EvEnd(name, key))]

\* read_ziplist, the loop: one entry, one rpush.  ReadZiplistElem is one
\* turn after its entry val.
RECURSIVE ReadZiplistElems(_, _, _, _, _)
RECURSIVE ReadZiplistElem(_, _, _, _, _)
ReadZiplistElem(buff, n, key, evs, val) ==
    IF ~val.ok THEN Res(FALSE, val.err, val.pos, evs)
    ELSE ReadZiplistElems(buff, val.pos, n - 1, key,
                          Append(evs, EvElem("rpush", key, val.val, NoneV)))

ReadZiplistElems(buff, bpos, n, key, evs) ==
    IF n <= 0 THEN Res(TRUE, "", bpos, evs)
    ELSE ReadZiplistElem(buff, n, key, evs, read_ziplist_entry(buff, bpos))

\* read_zset_from_ziplist, the loop: a member, then a score; a score that
\* is a str goes through float().  ReadZiplistZsetElem is one turn after
\* the two entries.
RECURSIVE ReadZiplistZsetElems(_, _, _, _, _)
RECURSIVE ReadZiplistZsetElem(_, _, _, _, _, _)
ReadZiplistZsetElem(buff, n, key, evs, member, score) ==
    LET fl == ParseFloat(score.val.b) IN
    IF ~member.ok THEN Res(FALSE, member.err, member.pos, evs)
    ELSE IF ~score.ok THEN Res(FALSE, score.err, score.pos, evs)
    ELSE IF score.val.t = "bytes" /\ ~fl.ok THEN Res(FALSE, "ValueError", score.pos, evs)
    ELSE ReadZiplistZsetElems(buff, score.pos, n - 1, key,
           Append(evs, EvElem("zadd", key,
                              IF score.val.t = "bytes" THEN FloatV(fl.val) ELSE score.val,
                              member.val)))

ReadZiplistZsetElems(buff, bpos, n, key, evs) ==
    IF n <= 0 THEN Res(TRUE, "", bpos, evs)
    ELSE ReadZiplistZsetElem(buff, n, key, evs, read_ziplist_entry(buff, bpos),
                             read_ziplist_entry(buff, read_ziplist_entry(buff, bpos).pos))

\* read_hash_from_ziplist, the loop: a field, then a value.
\* ReadZiplistHashElem is one turn after the two entries.
RECURSIVE ReadZiplistHashElems(_, _, _, _, _)
RECURSIVE ReadZiplistHashElem(_, _, _, _, _, _)
ReadZiplistHashElem(buff, n, key, evs, field, value) ==
    IF ~field.ok THEN Res(FALSE, field.err, field.pos, evs)
    ELSE IF ~value.ok THEN Res(FALSE, value.err, value.pos, evs)
    ELSE ReadZiplistHashElems(buff, value.pos, n - 1, key,
           Append(evs, EvElem("hset", key, field.val, value.val)))

ReadZiplistHashElems(buff, bpos, n, key, evs) ==
    IF n <= 0 THEN Res(TRUE, "", bpos, evs)
    ELSE ReadZiplistHashElem(buff, n, key, evs, read_ziplist_entry(buff, bpos),
                             read_ziplist_entry(buff, read_ziplist_entry(buff, bpos).pos))

\* The start of the three ziplist readers: the string that was read, the
\* buffer StringIO makes of it, and the header read from the buffer.
OpenZiplist(raw_string) ==
    [raw_string |-> raw_string,
     buff |-> PyStr(raw_string.val),
     h |-> ZiplistHeader(PyStr(raw_string.val))]

\* read_ziplist after its read_string and the header (z).
ZiplistOf(z, key, expiry) ==
    IF ~z.raw_string.ok THEN Res(FALSE, z.raw_string.err, z.raw_string.pos, <<>>)
    ELSE IF ~z.h.ok THEN Res(FALSE, "UnexpectedEof", z.raw_string.pos, <<>>)
    ELSE IF z.raw_string.val.t # "bytes" THEN Res(FALSE, "TypeError", z.raw_string.pos, <<>>)
    ELSE InBuffer(z.raw_string,
           ZiplistEnd(z.buff,
                      ReadZiplistElems(z.buff, z.h.pos, z.h.num_entries, key,
                         <<EvStart("start_list", key, z.h.num_entries, expiry, "ziplist",
                                   Len(z.buff))>>),
                      "end_list", key))

read_ziplist(f, pos, key, expiry) == ZiplistOf(OpenZiplist(read_string(f, pos)), key, expiry)

\* read_zset_from_ziplist after its read_string and the header (z).
ZsetZiplistOf(z, key, expiry) ==
    IF ~z.raw_string.ok THEN Res(FALSE, z.raw_string.err, z.raw_string.pos, <<>>)
    ELSE IF ~z.h.ok THEN Res(FALSE, "UnexpectedEof", z.raw_string.pos, <<>>)
    ELSE IF z.h.num_entries % 2 # 0 THEN Res(FALSE, "CorruptZiplist", z.raw_string.pos, <<>>)
    ELSE IF z.raw_string.val.t # "bytes" THEN Res(FALSE, "TypeError", z.raw_string.pos, <<>>)
    ELSE InBuffer(z.raw_string,
           ZiplistEnd(z.buff,
                      ReadZiplistZsetElems(z.buff, z.h.pos, z.h.num_entries \div 2, key,
                         <<EvStart("start_sorted_set", key, z.h.num_entries \div 2, expiry,
                                   "ziplist", Len(z.buff))>>),
                      "end_sorted_set", key))

read_zset_from_ziplist(f, pos, key, expiry) ==
    ZsetZiplistOf(OpenZiplist(read_string(f, pos)), key, expiry)

\* read_hash_from_ziplist after its read_string and the header (z).
HashZiplistOf(z, key, expiry) ==
    IF ~z.raw_string.ok THEN Res(FALSE, z.raw_string.err, z.raw_string.pos, <<>>)
    ELSE IF ~z.h.ok THEN Res(FALSE, "UnexpectedEof", z.raw_string.pos, <<>>)
    ELSE IF z.h.num_entries % 2 # 0 THEN Res(FALSE, "CorruptZiplist", z.raw_string.pos, <<>>)
    ELSE IF z.raw_string.val.t # "bytes" THEN Res(FALSE, "TypeError", z.raw_string.pos, <<>>)
    ELSE InBuffer(z.raw_string,
           ZiplistEnd(z.buff,
                      ReadZiplistHashElems(z.buff, z.h.pos, z.h.num_entries \div 2, key,
                         <<EvStart("start_hash", key, z.h.num_entries \div 2, expiry,
                                   "ziplist", Len(z.buff))>>),
                      "end_hash", key))

read_hash_from_ziplist(f, pos, key, expiry) ==
    HashZiplistOf(OpenZiplist(read_string(f, pos)), key, expiry)

\* read_zipmap_next_length: a byte below 254 is the length, 254 announces
\* four more bytes, 255 (None) ends the zipmap.
read_zipmap_next_length(f, pos) ==
    LET num == read_unsigned_char(f, pos) IN
    IF ~num.ok THEN [ok |-> FALSE, none |-> FALSE, val |-> 0, pos |-> num.pos]
    ELSE IF num.val < 254 THEN [ok |-> TRUE, none |-> FALSE, val |-> num.val, pos |-> num.pos]
    ELSE IF num.val = 254
    THEN LET l == read_unsigned_int(f, num.pos) IN
         [ok |-> l.ok, none |-> FALSE, val |-> l.val, pos |-> l.pos]
    ELSE [ok |-> TRUE, none |-> TRUE, val |-> 0, pos |-> num.pos]

\* read_zipmap, the loop: records until the end byte; every record is one
\* hset, whatever the header count said.  ZipmapKey is one turn after the
\* length kl of the key, ZipmapValue after the key k and the length vl of
\* the value.
RECURSIVE ReadZipmapElems(_, _, _, _)
RECURSIVE ZipmapKey(_, _, _, _)
RECURSIVE ZipmapValue(_, _, _, _, _)
ZipmapValue(buff, key, evs, k, vl) ==
    LET free == read_unsigned_char(buff, vl.pos)
        v == FRead(buff, free.pos, vl.val)
        asInt == ParseInt(v.bytes)
        value == IF asInt.ok THEN IntV(asInt.val) ELSE Bytes(v.bytes)
    IN  IF ~vl.ok THEN [ok |-> FALSE, err |-> "UnexpectedEof", events |-> evs]
        ELSE IF vl.none THEN [ok |-> FALSE, err |-> "CorruptZipmap", events |-> evs]
        ELSE IF ~free.ok THEN [ok |-> FALSE, err |-> "UnexpectedEof", events |-> evs]
        ELSE ReadZipmapElems(buff, skip(buff, v.pos, free.val), key,
                             Append(evs, EvElem("hset", key, Bytes(k.bytes), value)))

ZipmapKey(buff, key, evs, kl) ==
    IF ~kl.ok THEN [ok |-> FALSE, err |-> "UnexpectedEof", events |-> evs]
    ELSE IF kl.none THEN [ok |-> TRUE, err |-> "", events |-> evs]
    ELSE ZipmapValue(buff, key, evs, FRead(buff, kl.pos, kl.val),
                     read_zipmap_next_length(buff, FRead(buff, kl.pos, kl.val).pos))

ReadZipmapElems(buff, bpos, key, evs) ==
    ZipmapKey(buff, key, evs, read_zipmap_next_length(buff, bpos))

\* read_zipmap after its read_string.  bytearray(raw_string) of an integer
\* is that many zero bytes, so an integer-encoded value fails before
\* start_hash: at the first read when it is 0, else at len(raw_string).
ZipmapOf(raw_string, key, expiry) ==
    LET buff == raw_string.val.b
        num_entries == read_unsigned_char(buff, 0)
        start == EvStart("start_hash", key, num_entries.val, expiry, "zipmap", Len(buff))
    IN  IF ~raw_string.ok THEN Res(FALSE, raw_string.err, raw_string.pos, <<>>)
        ELSE IF raw_string.val.t = "none" THEN Res(FALSE, "TypeError", raw_string.pos, <<>>)
        ELSE IF raw_string.val.t = "int"
        THEN Res(FALSE, IF raw_string.val.v < 0 THEN "ValueError"
                        ELSE IF raw_string.val.v = 0 THEN "UnexpectedEof"
                        ELSE "TypeError", raw_string.pos, <<>>)
        ELSE IF ~num_entries.ok THEN Res(FALSE, "UnexpectedEof", raw_string.pos, <<>>)
        ELSE Closed(InBuffer(raw_string,
                             ReadZipmapElems(buff, num_entries.pos, key, <<start>>)),
                    "end_hash", key)

read_zipmap(f, pos, key, expiry) == ZipmapOf(read_string(f, pos), key, expiry)

(***************************************************************************)
(* read_object and skip_object.                                            *)
(***************************************************************************)
\* The four plain containers after read_length gave length: start_X, the
\* loop, end_X.
ReadContainer(f, length, enc_type, key, expiry) ==
    IF ~length.ok THEN Res(FALSE, "UnexpectedEof", length.pos, <<>>)
    ELSE IF enc_type = REDIS_RDB_TYPE_LIST
    THEN Closed(ReadElems(f, length.pos, length.val, key, "rpush",
                   <<EvStart("start_list", key, length.val, expiry, "linkedlist", 0)>>),
                "end_list", key)
    ELSE IF enc_type = REDIS_RDB_TYPE_SET
    THEN Closed(ReadElems(f, length.pos, length.val, key, "sadd",
                   <<EvStart("start_set", key, length.val, expiry, "hashtable", 0)>>),
                "end_set", key)
    ELSE IF enc_type = REDIS_RDB_TYPE_ZSET
    THEN Closed(ReadZsetElems(f, length.pos, length.val, key,
                   <<EvStart("start_sorted_set", key, length.val, expiry, "skiplist", 0)>>),
                "end_sorted_set", key)
    ELSE Closed(ReadHashElems(f, length.pos, length.val, key,
                   <<EvStart("start_hash", key, length.val, expiry, "hashtable", 0)>>),
                "end_hash", key)

\* REDIS_RDB_TYPE_STRING after its read_string: set(key, val, expiry).
ReadStringObject(val, key, expiry) ==
    IF ~val.ok THEN Res(FALSE, val.err, val.pos, <<>>)
    ELSE Res(TRUE, "", val.pos, <<Ev("set", key, 0, val.val, NoneV, expiry, "string", 0)>>)

read_object(f, pos, enc_type, key, expiry) ==
    IF enc_type = REDIS_RDB_TYPE_STRING
    THEN ReadStringObject(read_string(f, pos), key, expiry)
    ELSE IF enc_type \in {REDIS_RDB_TYPE_LIST, REDIS_RDB_TYPE_SET, REDIS_RDB_TYPE_ZSET,
                          REDIS_RDB_TYPE_HASH}
    THEN ReadContainer(f, read_length(f, pos), enc_type, key, expiry)
    ELSE IF enc_type = REDIS_RDB_TYPE_HASH_ZIPMAP THEN read_zipmap(f, pos, key, expiry)
    ELSE IF enc_type = REDIS_RDB_TYPE_LIST_ZIPLIST THEN read_ziplist(f, pos, key, expiry)
    ELSE IF enc_type = REDIS_RDB_TYPE_SET_INTSET THEN read_intset(f, pos, key, expiry)
    ELSE IF enc_type = REDIS_RDB_TYPE_ZSET_ZIPLIST THEN read_zset_from_ziplist(f, pos, key, expiry)
    ELSE IF enc_type = REDIS_RDB_TYPE_HASH_ZIPLIST THEN read_hash_from_ziplist(f, pos, key, expiry)
    ELSE Res(FALSE, "UnknownType", pos, <<>>)

\* The loop of skip_object: skip_strings times skip_string.  SkipNext is
\* one turn after its skip_string gave r.
RECURSIVE SkipStrings(_, _, _)
RECURSIVE SkipNext(_, _, _)
SkipNext(f, n, r) == IF ~r.ok THEN r ELSE SkipStrings(f, r.pos, n - 1)

SkipStrings(f, pos, n) ==
    IF n <= 0 THEN [ok |-> TRUE, err |-> "", pos |-> pos]
    ELSE SkipNext(f, n, skip_string(f, pos))

\* skip_object when skip_strings comes from read_length: k strings for
\* each of the length elements.
SkipCounted(f, length, k) ==
    IF ~length.ok THEN [ok |-> FALSE, err |-> "UnexpectedEof", pos |-> length.pos]
    ELSE SkipStrings(f, length.pos, length.val * k)

skip_object(f, pos, enc_type) ==
    IF enc_type = REDIS_RDB_TYPE_STRING THEN SkipStrings(f, pos, 1)
    ELSE IF enc_type = REDIS_RDB_TYPE_LIST THEN SkipCounted(f, read_length(f, pos), 1)
    ELSE IF enc_type = REDIS_RDB_TYPE_SET THEN SkipCounted(f, read_length(f, pos), 1)
    ELSE IF enc_type = REDIS_RDB_TYPE_ZSET THEN SkipCounted(f, read_length(f, pos), 2)
    ELSE IF enc_type = REDIS_RDB_TYPE_HASH THEN SkipCounted(f, read_length(f, pos), 2)
    ELSE IF enc_type \in {REDIS_RDB_TYPE_HASH_ZIPMAP, REDIS_RDB_TYPE_LIST_ZIPLIST,
                          REDIS_RDB_TYPE_SET_INTSET, REDIS_RDB_TYPE_ZSET_ZIPLIST,
                          REDIS_RDB_TYPE_HASH_ZIPLIST}
    THEN SkipStrings(f, pos, 1)
    ELSE [ok |-> FALSE, err |-> "UnknownType", pos |-> pos]

\* skip_key_and_object after the skip_string of the key gave k.
SkipObjectAfterKey(f, k, data_type) ==
    IF ~k.ok THEN k ELSE skip_object(f, k.pos, data_type)

skip_key_and_object(f, pos, data_type) ==
    SkipObjectAfterKey(f, skip_string(f, pos), data_type)

(***************************************************************************)
(* The filter.  An option the caller gives is absent, None, or a value of  *)
(* one of the forms init_filter looks for.  A `keys` pattern is a literal  *)
(* string (no metacharacter): re.match succeeds when the key starts with   *)
(* it; the default ".*" matches every key.                                 *)
(***************************************************************************)
Absent == [kind |-> "absent", i |-> 0, l |-> <<>>, s |-> <<>>]
IsNone == [kind |-> "none", i |-> 0, l |-> <<>>, s |-> <<>>]
OptInt(n) == [kind |-> "int", i |-> n, l |-> <<>>, s |-> <<>>]
OptList(l) == [kind |-> "list", i |-> 0, l |-> l, s |-> <<>>]
OptStr(s) == [kind |-> "str", i |-> 0, l |-> <<>>, s |-> s]
OptType(t) == [kind |-> "str", i |-> 0, l |-> <<t>>, s |-> <<>>]

\* The filters argument: None (or {}), or a dictionary of the three options.
NoFilters == [given |-> FALSE, dbs |-> Absent, keys |-> Absent, types |-> Absent]
Filters(dbs, keys, types) == [given |-> TRUE, dbs |-> dbs, keys |-> keys, types |-> types]

AllTypes == {"set", "hash", "sortedset", "string", "list"}

Range(q) == {q[i] : i \in 1..Len(q)}

IsPrefix(p, q) == Len(p) <= Len(q) /\ SubSeq(q, 1, Len(p)) = p

\* re.compile(pattern).match(s).
ReMatch(re, s) == re.any \/ IsPrefix(re.lit, s)

\* init_filter: self._filters, or the exception it raises.
init_filter(filters) ==
    LET dbs == IF filters.given THEN filters.dbs ELSE Absent
        keys == IF filters.given THEN filters.keys ELSE Absent
        types == IF filters.given THEN filters.types ELSE Absent
        dbsOk == dbs.kind \in {"absent", "int", "list"}
        typesOk == types.kind \in {"absent", "str", "list"}
    IN  [ok |-> dbsOk /\ typesOk,
         filters |->
           [dbs |-> CASE dbs.kind = "int" -> [none |-> FALSE, items |-> {dbs.i}]
                      [] dbs.kind = "list" -> [none |-> FALSE, items |-> Range(dbs.l)]
                      [] OTHER -> [none |-> TRUE, items |-> {}],
            keys |-> IF keys.kind = "str" /\ keys.s # <<>>
                     THEN [any |-> FALSE, lit |-> keys.s]
                     ELSE [any |-> TRUE, lit |-> <<>>],
            types |-> CASE types.kind = "str" -> {types.l[1]}
                        [] types.kind = "list" -> Range(types.l)
                        [] OTHER -> AllTypes]]

\* get_logical_type raises KeyError for a tag outside DATA_TYPE_MAPPING.
\* matches_filter(db_number): key and data_type are None.
matches_filter_db(flt, db_number) ==
    ~(~flt.dbs.none /\ flt.dbs.items # {} /\ db_number \notin flt.dbs.items)

\* matches_filter(db_number, key, data_type).
matches_filter(flt, db_number, key, data_type) ==
    IF ~matches_filter_db(flt, db_number) THEN [ok |-> TRUE, val |-> FALSE]
    ELSE IF Truthy(key) /\ ~ReMatch(flt.keys, PyStr(key)) THEN [ok |-> TRUE, val |-> FALSE]
    ELSE IF data_type \notin TypeTags THEN [ok |-> FALSE, val |-> FALSE]
    ELSE [ok |-> TRUE, val |-> DATA_TYPE_MAPPING(data_type) \in flt.types]

(***************************************************************************)
(* The parser as a state machine.                                          *)
(***************************************************************************)
VARIABLES
    pc,                 \* where the parser is: new, constructed, loop, dispatch,
                        \* key, done, failed, init_failed
    filters,            \* the filters argument of the constructor
    _filters,           \* self._filters
    f,                  \* the bytes of the file
    pos,                \* the cursor of the file
    _key,               \* self._key
    _expiry,            \* self._expiry
    is_first_database,
    db_number,
    data_type,
    events,             \* the calls made on self._callback, in order
    err,                \* the exception that ended the run, "" if none
    arg,                \* when one method is applied alone: what it is given
    ret                 \* and what it returned

vars == <<pc, filters, _filters, f, pos, _key, _expiry, is_first_database,
          db_number, data_type, events, err, arg, ret>>

Magic == <<82, 69, 68, 73, 83>>

\* arg and ret while parse runs: no method is applied alone.
NoCall == [fn |-> "parse"]

\* RdbParser.__init__: the callback, no key, no expiry, init_filter.
Construct ==
    /\ pc = "new"
    /\ LET r == init_filter(filters) IN
       /\ pc' = IF r.ok THEN "constructed" ELSE "init_failed"
       /\ err' = IF r.ok THEN "" ELSE "InvalidFilter"
       /\ _filters' = IF r.ok THEN r.filters ELSE _filters
    /\ _key' = NoneV
    /\ _expiry' = NoExpiry
    /\ UNCHANGED <<arg, ret, filters, f, pos, is_first_database, db_number, data_type, events>>

\* parse, up to the loop: the magic string, the version, start_rdb.
ParseHeader ==
    /\ pc = "constructed"
    /\ LET magic == FRead(f, pos, 5)
           version_str == FRead(f, magic.pos, 4)
           version == ParseInt(version_str.bytes)
       IN  IF magic.bytes # Magic
           THEN /\ pc' = "failed" /\ err' = "InvalidMagic" /\ pos' = magic.pos
                /\ UNCHANGED events
           ELSE IF ~version.ok
           THEN /\ pc' = "failed" /\ err' = "ValueError" /\ pos' = version_str.pos
                /\ UNCHANGED events
           ELSE IF version.val < 1 \/ version.val > 6
           THEN /\ pc' = "failed" /\ err' = "InvalidVersion" /\ pos' = version_str.pos
                /\ UNCHANGED events
           ELSE /\ pc' = "loop" /\ err' = "" /\ pos' = version_str.pos
                /\ events' = Append(events, EvPlain("start_rdb"))
    /\ is_first_database' = TRUE
    /\ db_number' = 0
    /\ UNCHANGED <<arg, ret, filters, _filters, f, _key, _expiry, data_type>>

\* ReadOpcode without line 282: the expiry pending from the iteration
\* before stays when this one has no prefix.
ReadOpcode_KeepExpiry ==
    /\ pc = "loop"
    /\ LET op == read_unsigned_char(f, pos)
           isMs == op.val = REDIS_RDB_OPCODE_EXPIRETIME_MS
           isS == op.val = REDIS_RDB_OPCODE_EXPIRETIME
           t == IF isMs THEN read_unsigned_long(f, op.pos) ELSE read_unsigned_int(f, op.pos)
           exp == to_datetime(IF isMs THEN t.val * 1000 ELSE t.val * 1000000)
           op2 == read_unsigned_char(f, t.pos)
       IN  IF ~op.ok
           THEN /\ pc' = "failed" /\ err' = "UnexpectedEof" /\ pos' = op.pos
                /\ UNCHANGED <<_expiry, data_type>>
           ELSE IF ~(isMs \/ isS)
           THEN /\ pc' = "dispatch" /\ err' = "" /\ pos' = op.pos
                /\ UNCHANGED _expiry /\ data_type' = op.val
           ELSE IF ~t.ok
           THEN /\ pc' = "failed" /\ err' = "UnexpectedEof" /\ pos' = t.pos
                /\ UNCHANGED _expiry /\ data_type' = op.val
           ELSE IF ~op2.ok
           THEN /\ pc' = "failed" /\ err' = "UnexpectedEof" /\ pos' = op2.pos
                /\ _expiry' = exp /\ data_type' = op.val
           ELSE /\ pc' = "dispatch" /\ err' = "" /\ pos' = op2.pos
                /\ _expiry' = exp /\ data_type' = op2.val
    /\ UNCHANGED <<arg, ret, filters, _filters, f, _key, is_first_database, db_number, events>>

\* The head of one iteration: the expiry is cleared, an opcode is read, and
\* after an expiry opcode the expiry and one more opcode.
ReadOpcode ==
    /\ pc = "loop"
    /\ LET op == read_unsigned_char(f, pos)
           isMs == op.val = REDIS_RDB_OPCODE_EXPIRETIME_MS
           isS == op.val = REDIS_RDB_OPCODE_EXPIRETIME
           t == IF isMs THEN read_unsigned_long(f, op.pos) ELSE read_unsigned_int(f, op.pos)
           exp == to_datetime(IF isMs THEN t.val * 1000 ELSE t.val * 1000000)
           op2 == read_unsigned_char(f, t.pos)
       IN  IF ~op.ok
           THEN /\ pc' = "failed" /\ err' = "UnexpectedEof" /\ pos' = op.pos
                /\ _expiry' = NoExpiry /\ UNCHANGED data_type
           ELSE IF ~(isMs \/ isS)
           THEN /\ pc' = "dispatch" /\ err' = "" /\ pos' = op.pos
                /\ _expiry' = NoExpiry /\ data_type' = op.val
           ELSE IF ~t.ok
           THEN /\ pc' = "failed" /\ err' = "UnexpectedEof" /\ pos' = t.pos
                /\ _expiry' = NoExpiry /\ data_type' = op.val
           ELSE IF ~op2.ok
           THEN /\ pc' = "failed" /\ err' = "UnexpectedEof" /\ pos' = op2.pos
                /\ _expiry' = exp /\ data_type' = op.val
           ELSE /\ pc' = "dispatch" /\ err' = "" /\ pos' = op2.pos
                /\ _expiry' = exp /\ data_type' = op2.val
    /\ UNCHANGED <<arg, ret, filters, _filters, f, _key, is_first_database, db_number, events>>

\* SelectDb that does not start a database whose index is the current one.
SelectDb_OncePerIndex ==
    /\ pc = "dispatch"
    /\ data_type = REDIS_RDB_OPCODE_SELECTDB
    /\ LET n == read_length(f, pos)
           again == n.ok /\ ~is_first_database /\ n.val = db_number
           ended == IF ~is_first_database /\ ~again
                    THEN Append(events, EvDb("end_database", db_number)) ELSE events
       IN  /\ pos' = n.pos
           /\ IF n.ok
              THEN /\ pc' = "loop" /\ err' = "" /\ db_number' = n.val
                   /\ events' = IF again THEN ended
                                ELSE Append(ended, EvDb("start_database", n.val))
              ELSE /\ pc' = "failed" /\ err' = "UnexpectedEof" /\ UNCHANGED db_number
                   /\ events' = ended
    /\ is_first_database' = FALSE
    /\ UNCHANGED <<arg, ret, filters, _filters, f, _key, _expiry, data_type>>

\* REDIS_RDB_OPCODE_SELECTDB: the database before ends unless this is the
\* first one, the index is read, the new database starts.
SelectDb ==
    /\ pc = "dispatch"
    /\ data_type = REDIS_RDB_OPCODE_SELECTDB
    /\ LET ended == IF ~is_first_database
                    THEN Append(events, EvDb("end_database", db_number)) ELSE events
           n == read_length(f, pos)
       IN  /\ pos' = n.pos
           /\ IF n.ok
              THEN /\ pc' = "loop" /\ err' = "" /\ db_number' = n.val
                   /\ events' = Append(ended, EvDb("start_database", n.val))
              ELSE /\ pc' = "failed" /\ err' = "UnexpectedEof" /\ UNCHANGED db_number
                   /\ events' = ended
    /\ is_first_database' = FALSE
    /\ UNCHANGED <<arg, ret, filters, _filters, f, _key, _expiry, data_type>>

\* EndOfFile without the break: the loop goes on after end_rdb.
EndOfFile_NoBreak ==
    /\ pc = "dispatch"
    /\ data_type = REDIS_RDB_OPCODE_EOF
    /\ events' = events \o <<EvDb("end_database", db_number), EvPlain("end_rdb")>>
    /\ pc' = "loop"
    /\ UNCHANGED <<arg, ret, filters, _filters, f, pos, _key, _expiry, is_first_database,
                   db_number, data_type, err>>

\* REDIS_RDB_OPCODE_EOF: end_database, end_rdb, and the loop is left.
EndOfFile ==
    /\ pc = "dispatch"
    /\ data_type = REDIS_RDB_OPCODE_EOF
    /\ events' = events \o <<EvDb("end_database", db_number), EvPlain("end_rdb")>>
    /\ pc' = "done"
    /\ UNCHANGED <<arg, ret, filters, _filters, f, pos, _key, _expiry, is_first_database,
                   db_number, data_type, err>>

IsKeyTag == data_type \notin {REDIS_RDB_OPCODE_SELECTDB, REDIS_RDB_OPCODE_EOF}

\* The database passes the filter: the key is read.
ReadKey ==
    /\ pc = "dispatch"
    /\ IsKeyTag
    /\ matches_filter_db(_filters, db_number)
    /\ \E k \in {read_string(f, pos)} :
       /\ pos' = k.pos
       /\ IF k.ok THEN /\ pc' = "key" /\ err' = "" /\ _key' = k.val
                  ELSE /\ pc' = "failed" /\ err' = k.err /\ UNCHANGED _key
    /\ UNCHANGED <<arg, ret, filters, _filters, f, _expiry, is_first_database, db_number,
                   data_type, events>>

\* The database does not pass the filter: skip_key_and_object.
SkipKeyAndObject ==
    /\ pc = "dispatch"
    /\ IsKeyTag
    /\ ~matches_filter_db(_filters, db_number)
    /\ \E r \in {skip_key_and_object(f, pos, data_type)} :
       /\ pos' = r.pos
       /\ pc' = IF r.ok THEN "loop" ELSE "failed"
       /\ err' = r.err
    /\ UNCHANGED <<arg, ret, filters, _filters, f, _key, _expiry, is_first_database, db_number,
                   data_type, events>>

\* The key and the type pass the filter: read_object.
ReadObject ==
    /\ pc = "key"
    /\ LET m == matches_filter(_filters, db_number, _key, data_type) IN m.ok /\ m.val
    /\ \E r \in {read_object(f, pos, data_type, _key, _expiry)} :
       /\ pos' = r.pos
       /\ pc' = IF r.ok THEN "loop" ELSE "failed"
       /\ err' = r.err
       /\ events' = events \o r.events
    /\ UNCHANGED <<arg, ret, filters, _filters, f, _key, _expiry, is_first_database, db_number,
                   data_type>>

\* The key or the type does not pass the filter: skip_object.
SkipObject ==
    /\ pc = "key"
    /\ LET m == matches_filter(_filters, db_number, _key, data_type) IN m.ok /\ ~m.val
    /\ \E r \in {skip_object(f, pos, data_type)} :
       /\ pos' = r.pos
       /\ pc' = IF r.ok THEN "loop" ELSE "failed"
       /\ err' = r.err
    /\ UNCHANGED <<arg, ret, filters, _filters, f, _key, _expiry, is_first_database, db_number,
                   data_type, events>>

\* matches_filter raises: the tag has no logical type.
UnknownType ==
    /\ pc = "key"
    /\ ~matches_filter(_filters, db_number, _key, data_type).ok
    /\ pc' = "failed"
    /\ err' = "KeyError"
    /\ UNCHANGED <<arg, ret, filters, _filters, f, pos, _key, _expiry, is_first_database,
                   db_number, data_type, events>>

(***************************************************************************)
(* The inputs: a header, then up to MaxItems pieces of a dump, each drawn  *)
(* from a palette of opcodes and key/value pairs of every type tag, some   *)
(* of them damaged; and the filters the parser is built with.              *)
(***************************************************************************)
MaxItems == 2

SEL0 == <<254, 0>>
SEL1 == <<254, 1>>
EOFB == <<255>>
\* an expiry of 1 second with nothing after it, and one before a select of 0
EXP_S == <<253, 1, 0, 0, 0>>
EXP_SEL0 == <<253, 3, 0, 0, 0, 254, 0>>
\* "a" -> "x"; "" -> "x"; "b" -> 42 (int8); "a" -> lzf("aaaa"); "a" -> 5 bytes, cut
STR_A == <<0, 1, 97, 1, 120>>
STR_EMPTY == <<0, 0, 1, 120>>
STR_INT == <<0, 1, 98, 192, 42>>
STR_LZF == <<0, 1, 97, 195, 4, 4, 0, 97, 32, 0>>
STR_CUT == <<0, 1, 97, 5, 120>>
\* "b" -> ["x"]; "a" -> {"x"}; "a" -> {"m": 1}; "a" -> {"f": "v"}
LIST_B == <<1, 1, 98, 1, 1, 120>>
SET_A == <<2, 1, 97, 1, 1, 120>>
ZSET_A == <<3, 1, 97, 1, 1, 109, 1, 49>>
HASH_A == <<4, 1, 97, 1, 1, 102, 1, 118>>
\* "b" -> ["x"] that expires 1002 milliseconds after the epoch
EXP_LIST_B == <<252, 234, 3, 0, 0, 0, 0, 0, 0, 1, 1, 98, 1, 1, 120>>
\* a sorted set whose score has the length byte 255
ZSET_NAN == <<3, 1, 98, 1, 1, 109, 255>>
\* a sorted set whose score is "1" and 63 blanks: 64 bytes, which float() takes
ZSET_LONG == <<3, 1, 98, 1, 1, 109, 64, 49>> \o [i \in 1..63 |-> 32]
\* a zipmap whose count byte says 2 and that holds the record "f" -> "v"
ZIPMAP_A == <<9, 1, 97, 7, 2, 1, 102, 1, 0, 118, 255>>
\* a ziplist [1]; an intset {5}; a ziplist zset {"m": 2}; a ziplist hash {"f": "v"}
ZIPLIST_A == <<10, 1, 97, 13, 13, 0, 0, 0, 10, 0, 0, 0, 1, 0, 0, 242, 255>>
INTSET_A == <<11, 1, 97, 10, 2, 0, 0, 0, 1, 0, 0, 0, 5, 0>>
ZSETZL_A == <<12, 1, 97, 16, 16, 0, 0, 0, 13, 0, 0, 0, 2, 0, 0, 1, 109, 0, 243, 255>>
HASHZL_A == <<13, 1, 97, 17, 17, 0, 0, 0, 13, 0, 0, 0, 2, 0, 0, 1, 102, 0, 1, 118, 255>>
\* a tag that is no type
BADTAG == <<5, 1, 97, 1, 120>>

Palette ==
    {SEL0, SEL1, EOFB, EXP_S, EXP_SEL0, EXP_LIST_B, STR_A, STR_EMPTY, STR_INT, STR_LZF, STR_CUT,
     LIST_B, SET_A, ZSET_A, HASH_A, ZSET_NAN, ZSET_LONG, ZIPMAP_A, ZIPLIST_A, INTSET_A,
     ZSETZL_A, HASHZL_A, BADTAG}

\* "REDIS0006", and headers that differ in the version or in the magic, or
\* are cut short
GoodHeader == Magic \o <<48, 48, 48, 54>>
Headers ==
    {GoodHeader,
     Magic \o <<48, 48, 48, 49>>,
     Magic \o <<48, 48, 48, 55>>,
     Magic \o <<48, 48, 48, 48>>,
     Magic \o <<48, 48, 97, 54>>,
     Magic \o <<54>>,
     <<82, 69, 68, 73, 88, 48, 48, 48, 54>>,
     <<82, 69, 68, 73>>}

FilterArgs ==
    {NoFilters,
     Filters(OptList(<<0>>), Absent, Absent),
     Filters(Absent, OptStr(<<97>>), Absent),
     Filters(Absent, Absent, OptList(<<"string">>)),
     Filters(Absent, Absent, OptList(<<>>)),
     Filters(IsNone, Absent, Absent),
     Filters(Absent, Absent, IsNone),
     Filters(OptList(<<>>), IsNone, Absent),
     Filters(OptInt(1), OptStr(<<>>), OptType("hash"))}

RECURSIVE Concat(_)
Concat(items) == IF items = <<>> THEN <<>> ELSE Head(items) \o Concat(Tail(items))

\* The sequences of at most n pieces.
RECURSIVE SeqsUpTo(_)
SeqsUpTo(n) ==
    IF n = 0 THEN {<<>>}
    ELSE LET S == SeqsUpTo(n - 1) IN S \cup {Append(q, a) : q \in S, a \in Palette}

Bodies == SeqsUpTo(MaxItems)

Init ==
    /\ pc = "new"
    /\ filters \in FilterArgs
    /\ \E h \in Headers, body \in Bodies :
          /\ h = GoodHeader \/ (Len(body) <= 1 /\ filters = NoFilters)
          /\ f = h \o Concat(body)
    /\ _filters = init_filter(NoFilters).filters
    /\ pos = 0
    /\ _key = NoneV
    /\ _expiry = NoExpiry
    /\ is_first_database = TRUE
    /\ db_number = 0
    /\ data_type = 0
    /\ events = <<>>
    /\ err = ""
    /\ arg = NoCall
    /\ ret = NoCall

Next ==
    \/ Construct
    \/ ParseHeader
    \/ ReadOpcode
    \/ SelectDb
    \/ EndOfFile
    \/ ReadKey
    \/ SkipKeyAndObject
    \/ ReadObject
    \/ SkipObject
    \/ UnknownType

Spec == Init /\ [][Next]_vars

(***************************************************************************)
(* Properties.                                                             *)
(***************************************************************************)
StartNames == {"start_hash", "start_set", "start_list", "start_sorted_set"}

ElemOf(name) ==
    CASE name = "start_hash" -> "hset"
      [] name = "start_set" -> "sadd"
      [] name = "start_list" -> "rpush"
      [] name = "start_sorted_set" -> "zadd"

EndOf(name) ==
    CASE name = "start_hash" -> "end_hash"
      [] name = "start_set" -> "end_set"
      [] name = "start_list" -> "end_list"
      [] name = "start_sorted_set" -> "end_sorted_set"

\* The events that open a key: set, or the start of a container.
IsKeyStart(e) == e.ev = "set" \/ e.ev \in StartNames

\* The container opened at events[i] is followed by exactly its n elements
\* and then closed, all with its key.
Bracketed(evs, i) ==
    LET e == evs[i]
        n == e.n
    IN  /\ i + n + 1 <= Len(evs)
        /\ \A j \in 1..n : evs[i + j].ev = ElemOf(e.ev) /\ evs[i + j].key = e.key
        /\ evs[i + n + 1].ev = EndOf(e.ev)
        /\ evs[i + n + 1].key = e.key

\* C1: in a parse that completes, every start_X(key, n) is followed by
\* exactly n element callbacks with that key and then by end_X(key), with
\* nothing in between, for every type reader, the zipmap one included.
C1_StartCountsElements ==
    pc = "done" =>
        \A i \in 1..Len(events) : events[i].ev \in StartNames => Bracketed(events, i)

IsDbEvent(e) == e.ev \in {"start_database", "end_database"}

\* C2: in a parse that reaches the end-of-file opcode, start_database and
\* end_database alternate strictly, starting with start_database; each
\* end_database(i) closes the start_database(i) before it, so that their
\* numbers are equal, and the last end_database comes before end_rdb.
C2_DatabasesAlternate ==
    pc = "done" =>
        LET d == SelectSeq(events, IsDbEvent) IN
        /\ Len(d) % 2 = 0
        /\ \A k \in 1..Len(d) :
              IF k % 2 = 1 THEN d[k].ev = "start_database"
              ELSE d[k].ev = "end_database" /\ d[k].n = d[k - 1].n
        /\ events[Len(events)].ev = "end_rdb"

\* The events a step adds to the trace.
NewEvents == SubSeq(events', Len(events) + 1, Len(events'))

\* What the expiry prefix at cursor p of the file says: opcode 252 holds
\* milliseconds, opcode 253 seconds, after the epoch; anything else is no
\* prefix.
DecodedExpiry(file, p) ==
    IF p >= Len(file) THEN NoExpiry
    ELSE IF file[p + 1] = 252
    THEN LET ms == LE(SubSeq(file, p + 2, p + 9)) IN
         [set |-> TRUE, sec |-> ms \div 1000, usec |-> (ms % 1000) * 1000]
    ELSE IF file[p + 1] = 253
    THEN [set |-> TRUE, sec |-> LE(SubSeq(file, p + 2, p + 5)), usec |-> 0]
    ELSE NoExpiry

C3_Step ==
    /\ (pc = "loop" /\ pc' = "dispatch") => _expiry' = DecodedExpiry(f, pos)
    /\ (pc = "dispatch" /\ pc' = "key") => _expiry' = _expiry
    /\ \A i \in 1..Len(NewEvents) :
          IF IsKeyStart(NewEvents[i])
          THEN pc = "key" /\ i = 1 /\ NewEvents[i].exp = _expiry
          ELSE ~NewEvents[i].exp.set

\* C3: the expiry pending when a key is dispatched is exactly the one the
\* prefix of that key's own iteration holds (none without a prefix, whatever
\* was pending before: an earlier key's expiry, read or skipped, and one
\* read before a database-select are gone); the key's set / start_X event
\* carries it, and no other event carries an expiry.
C3_ExpiryOnlyNextKey == [][C3_Step]_vars

\* A list that expires at 1.002 s was emitted, and after it a key without
\* a prefix, which got no expiry.
C3_Witness ==
    \E i, j \in 1..Len(events) :
        /\ i < j
        /\ events[i].ev = "start_list"
        /\ events[i].exp = [set |-> TRUE, sec |-> 1, usec |-> 2000]
        /\ IsKeyStart(events[j])
        /\ ~events[j].exp.set

\* C4: skip and read consume the same bytes: where a key is about to be
\* read, skip_string stops where read_string stops, and where a value of
\* any type tag is about to be read and read_object completes, skip_object
\* completes at the same cursor.
C4_SkipConsumesAsRead ==
    /\ (pc = "dispatch" /\ IsKeyTag /\ read_string(f, pos).ok) =>
          (skip_string(f, pos).ok /\ skip_string(f, pos).pos = read_string(f, pos).pos)
    /\ (pc = "key" /\ data_type \in TypeTags
           /\ read_object(f, pos, data_type, _key, _expiry).ok) =>
          /\ skip_object(f, pos, data_type).ok
          /\ skip_object(f, pos, data_type).pos
                = read_object(f, pos, data_type, _key, _expiry).pos

\* The filter as the claim reads it: the database is one of dbs, the key
\* (as a string) matches the pattern, the logical type is one of types.
DbAccepted(flt, db) == flt.dbs.none \/ flt.dbs.items = {} \/ db \in flt.dbs.items

Accepts(flt, db, key, tag) ==
    /\ DbAccepted(flt, db)
    /\ ReMatch(flt.keys, PyStr(key))
    /\ DATA_TYPE_MAPPING(tag) \in flt.types

C5_Step ==
    /\ (pc = "key" /\ pc' = "loop" /\ data_type \in TypeTags) =>
          ((events' # events) <=> Accepts(_filters, db_number, _key, data_type))
    /\ (pc = "dispatch" /\ IsKeyTag /\ ~DbAccepted(_filters, db_number)) => events' = events

\* C5: a key is emitted exactly when the filter accepts its database, its
\* key and its logical type, the empty key included; a rejected key causes
\* no callback, and the events of the others keep their order.
C5_EmittedIffAccepted == [][C5_Step]_vars

\* An option that is None or empty.
NoneOrEmpty(opt) ==
    \/ opt.kind = "none"
    \/ opt.kind = "list" /\ opt.l = <<>>
    \/ opt.kind = "str" /\ opt.s = <<>> /\ opt.l = <<>>

\* The filters argument with its None or empty options left out.
LeftOut(F) ==
    IF ~F.given THEN NoFilters
    ELSE Filters(IF NoneOrEmpty(F.dbs) THEN Absent ELSE F.dbs,
                 IF NoneOrEmpty(F.keys) THEN Absent ELSE F.keys,
                 IF NoneOrEmpty(F.types) THEN Absent ELSE F.types)

SampleKeys == {Bytes(<<>>), Bytes(<<97>>), Bytes(<<98>>), IntV(42)}

\* C6: with filters None, or with dbs, keys or types None or empty, the
\* parser is constructed, and matches_filter decides as if that option had
\* been left out: every value passes on that axis.
C6_NoneOrEmptyIsNoFilter ==
    (~filters.given \/ NoneOrEmpty(filters.dbs) \/ NoneOrEmpty(filters.keys)
        \/ NoneOrEmpty(filters.types)) =>
        /\ pc # "init_failed"
        /\ pc # "new" =>
              \A db \in 0..2, key \in SampleKeys, tag \in TypeTags :
                  matches_filter(_filters, db, key, tag)
                     = matches_filter(init_filter(LeftOut(filters)).filters, db, key, tag)

C7_State ==
    /\ \A i \in 1..Len(events) :
          events[i].ev = "end_rdb" => (pc = "done" /\ i = Len(events))
    /\ pc = "done" =>
          /\ Len(events) >= 2
          /\ events[Len(events)] = EvPlain("end_rdb")
          /\ events[Len(events) - 1] = EvDb("end_database", db_number)
          /\ f[pos] = REDIS_RDB_OPCODE_EOF

C7_Step == pc = "done" => (pos' = pos /\ events' = events /\ pc' = "done")

\* C7: the end-of-file opcode ends the parse: end_database(current) and
\* end_rdb are the last two events, the cursor stays right after the opcode
\* and nothing is emitted afterwards, whatever follows in the file; end_rdb
\* occurs at most once, as the last event.
C7_EofTerminates == [](C7_State) /\ [][C7_Step]_vars

\* The parse is over at the end-of-file opcode with bytes of the file left
\* unread after it.
C7_Witness ==
    /\ pc = "done"
    /\ pos < Len(f)
    /\ events[Len(events)] = EvPlain("end_rdb")

\* The header as the claim reads it: the magic tag, then four decimal digits
\* whose value is 1..6.
StrictHeader(file) ==
    /\ Len(file) >= 9
    /\ SubSeq(file, 1, 5) = Magic
    /\ \A i \in 6..9 : IsDigit(file[i])
    /\ DigitsValue(SubSeq(file, 6, 9), 0) \in 1..6

\* C8: start_rdb is the first event and occurs once, and only for a file
\* that begins with REDIS and a four-byte version in 1..6; for any other
\* file the parse fails and no callback is made.
C8_StartRdbOnlyAfterHeader ==
    /\ \A i \in 1..Len(events) : (events[i].ev = "start_rdb") <=> (i = 1)
    /\ events # <<>> => StrictHeader(f)
    /\ ~StrictHeader(f) => pc \in {"new", "constructed", "failed", "init_failed"}
    /\ (StrictHeader(f) /\ pc \in {"loop", "dispatch", "key", "done"}) => events # <<>>

\* The string at cursor p declares more raw bytes than the source holds.
DeclaredBeyondEnd(file, p) ==
    LET t == read_length_with_encoding(file, p) IN
    t.ok /\ ~t.is_encoded /\ t.pos + LengthOf(t) > Len(file)

\* C9: a read that needs more bytes than the source holds fails: the
\* fixed-width reads, and the read or the skip of a string whose declared
\* length runs past the end, so that no set event carries a value cut short
\* and no skip stops short unnoticed.
C9_ShortSourceFails ==
    /\ \A n \in {1, 2, 3, 4, 8} : pos + n > Len(f) => ~Unpack(f, pos, n).ok
    /\ (pc = "dispatch" /\ IsKeyTag /\ DeclaredBeyondEnd(f, pos)) =>
          (~read_string(f, pos).ok /\ ~skip_string(f, pos).ok)
    /\ (pc = "key" /\ data_type = REDIS_RDB_TYPE_STRING /\ DeclaredBeyondEnd(f, pos)) =>
          /\ ~read_object(f, pos, data_type, _key, _expiry).ok
          /\ ~skip_object(f, pos, data_type).ok

IsStartDb(e) == e.ev = "start_database"

C10_Step ==
    LET n == read_length(f, pos)
        starts == SelectSeq(NewEvents, IsStartDb)
    IN  IF pc = "dispatch" /\ data_type = REDIS_RDB_OPCODE_SELECTDB /\ n.ok
        THEN /\ starts = <<EvDb("start_database", n.val)>>
             /\ is_first_database \/ NewEvents[1] = EvDb("end_database", db_number)
        ELSE starts = <<>>

UnitKey == Bytes(<<107>>)

UnitFields ==
    /\ filters = NoFilters
    /\ _filters = init_filter(NoFilters).filters
    /\ pos = 0
    /\ _key = UnitKey
    /\ _expiry = NoExpiry
    /\ is_first_database = TRUE
    /\ db_number = 0
    /\ events = <<>>
    /\ err = ""
    /\ ret = NoCall

\* ---- read_length_with_encoding ----
\* A number below 2^32 as two halves of 16 bits, and the number d away
\* from it.
Wide(hi, lo) == [hi |-> hi, lo |-> lo]

WideAdd(w, d) == Wide(w.hi + ((w.lo + d) \div 65536), (w.lo + d) % 65536)

\* The length v written in the narrowest class that holds it: one byte
\* with the top bits 00, two bytes with the top bits 01, or the byte with
\* the top bits 10 and four bytes, the highest first.
MinWidthEncoding(v) ==
    IF v.hi = 0 /\ v.lo <= 63 THEN <<v.lo>>
    ELSE IF v.hi = 0 /\ v.lo <= 16383 THEN <<64 + (v.lo \div 256), v.lo % 256>>
    ELSE <<128, v.hi \div 256, v.hi % 256, v.lo \div 256, v.lo % 256>>

\* The lengths tried: those at most MaxDelta away from the ends of the
\* classes (0, 63 | 64, 16383 | 16384, 2^32 - 1), from the places where a
\* byte or a half carries (255 | 256, 65535 | 65536, 2^31 - 1 | 2^31), and
\* two whose four bytes all differ.
MaxDelta == 2

LengthMarks ==
    {Wide(0, 0), Wide(0, 63), Wide(0, 64), Wide(0, 255), Wide(0, 256), Wide(0, 16383),
     Wide(0, 16384), Wide(0, 65535), Wide(1, 0), Wide(32767, 65535), Wide(32768, 0),
     Wide(65535, 65535), Wide(258, 772), Wide(61937, 33924)}

Lengths ==
    {w \in {WideAdd(m, d) : m \in LengthMarks, d \in (0 - MaxDelta)..MaxDelta} :
        w.hi >= 0 /\ w.hi <= 65535}

\* What follows the length in the source: nothing, or bytes that are not
\* its own.
Rests == {<<>>, <<170>>, <<0, 255>>}

LengthCalls ==
    {[fn |-> "read_length_with_encoding", v |-> v, rest |-> rest,
      bytes |-> MinWidthEncoding(v) \o rest] : v \in Lengths, rest \in Rests}

\* read_length_with_encoding(f) at the start of the source.
CallReadLengthWithEncoding ==
    /\ pc = "call"
    /\ arg.fn = "read_length_with_encoding"
    /\ \E tup \in {read_length_with_encoding(f, pos)} :
       /\ ret' = tup
       /\ pos' = tup.pos
       /\ pc' = IF tup.ok THEN "returned" ELSE "raised"
       /\ err' = IF tup.ok THEN "" ELSE "UnexpectedEof"
    /\ UNCHANGED <<arg, filters, _filters, f, _key, _expiry, is_first_database, db_number,
                   data_type, events>>

\* ---- lzf_decompress ----
\* A compressed run is built from pieces: a literal run of 1 .. 32 bytes,
\* or a back-reference that repeats n bytes (3 .. 264) starting d bytes
\* (1 .. 8192) before the end of what was produced so far.
Lit(bytes) == [lit |-> bytes, n |-> Len(bytes), d |-> 0]

Ref(n, d) == [lit |-> <<>>, n |-> n, d |-> d]

\* The bytes of one piece: ctrl = length - 1 and the literal bytes; or
\* ctrl = the length code (n - 2, or 7 with n - 9 in the next byte) over the
\* five high bits of d - 1, and the low byte of d - 1.
LzfBytes(c) ==
    IF c.lit # <<>> THEN <<c.n - 1>> \o c.lit
    ELSE IF c.n <= 8 THEN <<(c.n - 2) * 32 + ((c.d - 1) \div 256), (c.d - 1) % 256>>
    ELSE <<224 + ((c.d - 1) \div 256), c.n - 9, (c.d - 1) % 256>>

RECURSIVE LzfStream(_)
LzfStream(chunks) ==
    IF chunks = <<>> THEN <<>> ELSE LzfBytes(Head(chunks)) \o LzfStream(Tail(chunks))

\* The number of bytes the pieces stand for.
RECURSIVE Produced(_)
Produced(chunks) == IF chunks = <<>> THEN 0 ELSE Head(chunks).n + Produced(Tail(chunks))

\* The pieces tried, and the runs of at most MaxChunks of them.  The
\* back-references reach 1, 2 or 3 bytes back, or 257, which no output
\* here is long enough for.
MaxChunks == 2

Chunks ==
    {Lit(<<97>>), Lit(<<97, 98>>), Lit(<<98, 99, 100>>),
     Ref(3, 1), Ref(4, 2), Ref(8, 1), Ref(9, 1), Ref(10, 3), Ref(3, 3), Ref(3, 257)}

RECURSIVE ChunkSeqs(_)
ChunkSeqs(n) ==
    IF n = 0 THEN {<<>>}
    ELSE ChunkSeqs(n - 1) \cup {Append(q, c) : q \in ChunkSeqs(n - 1), c \in Chunks}

\* lzf_decompress is given the run, whole or without its last byte, and
\* the number of bytes it stands for, or one more.
LzfCalls ==
    {[fn |-> "lzf_decompress", chunks |-> q, cut |-> cut,
      expected_length |-> Produced(q) + more,
      bytes |-> SubSeq(LzfStream(q), 1, Len(LzfStream(q)) - cut)] :
        q \in ChunkSeqs(MaxChunks) \ {<<>>}, cut \in {0, 1}, more \in {0, 1}}

\* lzf_decompress(compressed, expected_length).
CallLzfDecompress ==
    /\ pc = "call"
    /\ arg.fn = "lzf_decompress"
    /\ \E r \in {lzf_decompress(f, arg.expected_length)} :
       /\ ret' = r
       /\ pc' = IF r.ok THEN "returned" ELSE "raised"
       /\ err' = r.err
    /\ UNCHANGED <<arg, filters, _filters, f, pos, _key, _expiry, is_first_database,
                   db_number, data_type, events>>

\* ---- read_ziplist_entry ----
\* The w little-endian bytes of the two's complement of n.
RECURSIVE IntBytes(_, _)
IntBytes(n, w) == IF w = 0 THEN <<>> ELSE <<n % 256>> \o IntBytes(n \div 256, w - 1)

\* What an entry is built from: the bytes of its prev_length field, of its
\* header (with the length bytes of a string), of its payload, and the
\* value it stands for.
Entry(header, payload, value) == [header |-> header, payload |-> payload, value |-> value]

\* A string of n bytes, none of them 255.
Text(n) == [i \in 1..n |-> 1 + (i % 250)]

\* Strings under the three string headers: the length in six bits, in
\* fourteen bits, in four bytes with the highest first.
StringEntries ==
    {Entry(<<n>>, Text(n), Bytes(Text(n))) : n \in {0, 1, 2, 63}}
    \cup {Entry(<<64 + (n \div 256), n % 256>>, Text(n), Bytes(Text(n))) : n \in {0, 3, 64, 255, 256, 300}}
    \cup {Entry(<<128, 0, 0, n \div 256, n % 256>>, Text(n), Bytes(Text(n))) : n \in {0, 2, 258}}

\* Integers under the five integer headers with a payload, the smallest
\* and the largest of each width among them where the model's integers
\* reach them, and the thirteen headers that are the integer themselves.
Min32 == (0 - 2147483647) - 1

IntegerEntries ==
    {Entry(<<192>>, IntBytes(n, 2), IntV(n)) : n \in {0, 1, 0 - 1, 258, 32767, 0 - 32768}}
    \cup {Entry(<<208>>, IntBytes(n, 4), IntV(n)) :
              n \in {0, 0 - 1, 70000, 16909060, 2147483647, Min32}}
    \cup {Entry(<<224>>, IntBytes(n, 8), IntV(n)) :
              n \in {0, 5, 0 - 1, 0 - 129, 16909060, 2147483647, Min32}}
    \cup {Entry(<<240>>, IntBytes(n, 3), IntV(n)) :
              n \in {0, 1, 0 - 1, 66051, 8388607, 0 - 8388608}}
    \cup {Entry(<<254>>, IntBytes(n, 1), IntV(n)) : n \in {0, 5, 0 - 1, 127, 0 - 128}}
    \cup {Entry(<<h>>, <<>>, IntV(h - 241)) : h \in 241..253}

\* The prev_length field: one byte, or 254 and four bytes.
PrevLengths == {<<0>>, <<5>>, <<253>>, <<255>>, <<254, 0, 0, 0, 0>>, <<254, 44, 1, 0, 0>>}

\* Every header byte there is, with eight bytes behind it.
HeaderEntries == {Entry(<<h>>, <<1, 0, 0, 0, 0, 0, 0, 0>>, NoneV) : h \in 0..255}

EntryCalls ==
    {[fn |-> "read_ziplist_entry", made |-> "entry", prev |-> prev, entry |-> e, rest |-> rest,
      bytes |-> prev \o e.header \o e.payload \o rest] :
        prev \in PrevLengths, e \in StringEntries \cup IntegerEntries, rest \in {<<>>, <<255>>}}
    \cup {[fn |-> "read_ziplist_entry", made |-> "header", prev |-> <<0>>, entry |-> e,
            rest |-> <<>>, bytes |-> <<0>> \o e.header \o e.payload] : e \in HeaderEntries}

\* read_ziplist_entry(f) at the start of the buffer.
CallReadZiplistEntry ==
    /\ pc = "call"
    /\ arg.fn = "read_ziplist_entry"
    /\ \E r \in {read_ziplist_entry(f, pos)} :
       /\ ret' = r
       /\ pos' = r.pos
       /\ pc' = IF r.ok THEN "returned" ELSE "raised"
       /\ err' = r.err
    /\ UNCHANGED <<arg, filters, _filters, f, _key, _expiry, is_first_database, db_number,
                   data_type, events>>

\* ---- read_object on the packed containers ----
\* A buffer as the value of a key: its length, then its bytes.
Packed(buffer) == MinWidthEncoding(Wide(0, Len(buffer))) \o buffer

\* An intset: the encoding, the number of entries, and for each entry
\* `width` bytes that hold its index.
RECURSIVE IntsetEntries(_, _)
IntsetEntries(n, width) ==
    IF n = 0 THEN <<>> ELSE IntsetEntries(n - 1, width) \o IntBytes(n, width)

Intset(encoding, count) ==
    IntBytes(encoding, 4) \o IntBytes(count, 4)
        \o IntsetEntries(count, IF encoding \in {2, 4, 8} THEN encoding ELSE 2)

\* A ziplist: zlbytes, the tail offset, the number of entries it says it
\* has, the entries it has (each after a prev_length of one byte), and what
\* stands where the terminator belongs.
RECURSIVE ZiplistEntries(_)
ZiplistEntries(entries) ==
    IF entries = <<>> THEN <<>>
    ELSE <<0>> \o Head(entries).header \o Head(entries).payload \o ZiplistEntries(Tail(entries))

Ziplist(count, entries, term) ==
    IntBytes(11 + Len(ZiplistEntries(entries)), 4) \o IntBytes(10, 4) \o IntBytes(count, 2)
        \o ZiplistEntries(entries) \o term

\* The entries tried, each of which a sorted set takes as a member and as a
\* score: the string "1", the integer 2, the 16-bit integer -1.
MaxEntries == 3

Items ==
    {Entry(<<1>>, <<49>>, Bytes(<<49>>)), Entry(<<243>>, <<>>, IntV(2)),
     Entry(<<192>>, <<255, 255>>, IntV(0 - 1))}

RECURSIVE ItemSeqs(_)
ItemSeqs(n) ==
    IF n = 0 THEN {<<>>}
    ELSE ItemSeqs(n - 1) \cup {Append(q, e) : q \in ItemSeqs(n - 1), e \in Items}

\* read_object is given an intset of every encoding tried and 0 ..
\* MaxEntries entries; and, as a list, a sorted set and a hash, a ziplist
\* that has up to MaxEntries entries, says it has 0 .. MaxEntries + 1, and
\* ends in 255, in another byte, or in nothing.
ObjectCalls ==
    {[fn |-> "read_object", made |-> "intset", tag |-> REDIS_RDB_TYPE_SET_INTSET,
      encoding |-> e, count |-> c, bytes |-> Packed(Intset(e, c))] :
        e \in {0, 1, 2, 3, 4, 5, 8, 16, 65536}, c \in 0..MaxEntries}
    \cup {[fn |-> "read_object", made |-> "ziplist", tag |-> t, count |-> c, entries |-> q,
            term |-> term, bytes |-> Packed(Ziplist(c, q, term))] :
              t \in {REDIS_RDB_TYPE_LIST_ZIPLIST, REDIS_RDB_TYPE_ZSET_ZIPLIST,
                      REDIS_RDB_TYPE_HASH_ZIPLIST},
              c \in 0..(MaxEntries + 1), q \in ItemSeqs(MaxEntries),
              term \in {<<255>>, <<254>>, <<0>>, <<>>}}

\* read_object(f, enc_type) for self._key, at the start of the source.
CallReadObject ==
    /\ pc = "call"
    /\ arg.fn = "read_object"
    /\ \E r \in {read_object(f, pos, data_type, _key, _expiry)} :
       /\ events' = r.events
       /\ pos' = r.pos
       /\ pc' = IF r.ok THEN "returned" ELSE "raised"
       /\ err' = r.err
    /\ UNCHANGED <<arg, ret, filters, _filters, f, _key, _expiry, is_first_database,
                   db_number, data_type>>


\* ---- the specification of the methods applied alone ----
UnitCalls == LengthCalls \cup LzfCalls \cup EntryCalls \cup ObjectCalls

UnitInit ==
    /\ pc = "call"
    /\ arg \in UnitCalls
    /\ f = arg.bytes
    /\ data_type = (IF arg.fn = "read_object" THEN arg.tag ELSE 0)
    /\ UnitFields

UnitNext ==
    \/ CallReadLengthWithEncoding
    \/ CallLzfDecompress
    \/ CallReadZiplistEntry
    \/ CallReadObject

Units == UnitInit /\ [][UnitNext]_vars

(***************************************************************************)
(* Properties of the methods applied alone.                                *)
(***************************************************************************)
\* C11: a length v of 0 .. 2^32 - 1 written in the narrowest class that
\* holds it is read back by read_length_with_encoding as (v, is_encoded =
\* False), and the cursor has moved over the 1, 2 or 5 bytes of its class
\* (1 up to 63, 2 up to 16383, 5 above), whatever follows in the source.
C11_Width(v) == IF v.hi = 0 /\ v.lo <= 63 THEN 1 ELSE IF v.hi = 0 /\ v.lo <= 16383 THEN 2 ELSE 5

C11_LengthRoundTrip ==
    (arg.fn = "read_length_with_encoding" /\ pc # "call") =>
        /\ pc = "returned"
        /\ ret.ok
        /\ ret.hi = arg.v.hi /\ ret.lo = arg.v.lo
        /\ ret.is_encoded = FALSE
        /\ pos = C11_Width(arg.v)

\* the largest length, 2^32 - 1, read back from its five bytes with a byte
\* of something else behind them
C11_Witness ==
    /\ pc = "returned"
    /\ arg.fn = "read_length_with_encoding"
    /\ arg.v = Wide(65535, 65535)
    /\ arg.rest = <<170>>
    /\ ret.hi = 65535 /\ ret.lo = 65535
    /\ pos = 5

\* The plaintext a run of pieces stands for: a literal adds its bytes, a
\* back-reference adds, n times, the byte d places before the end.  A
\* back-reference that reaches before the start has no plaintext.
RECURSIVE Repeat(_, _, _)
Repeat(out, n, d) == IF n = 0 THEN out ELSE Repeat(Append(out, out[Len(out) - d + 1]), n - 1, d)

RECURSIVE Plain(_, _)
Plain(chunks, out) ==
    IF chunks = <<>> THEN [ok |-> TRUE, out |-> out]
    ELSE IF Head(chunks).lit # <<>> THEN Plain(Tail(chunks), out \o Head(chunks).lit)
    ELSE IF Head(chunks).d > Len(out) THEN [ok |-> FALSE, out |-> out]
    ELSE Plain(Tail(chunks), Repeat(out, Head(chunks).n, Head(chunks).d))

\* C12: lzf_decompress, given the LZF encoding of a plaintext (literal
\* runs of ctrl + 1 bytes; back-references of (ctrl >> 5, plus the next
\* byte when that is 7) + 2 bytes taken one at a time from ((ctrl & 0x1f) <<
\* 8 | next byte) + 1 places back), returns that plaintext when the
\* declared length is the length produced, and fails with CorruptLzf when
\* it is not; it returns a value only when the length of the value is the
\* declared length.
C12_LzfRoundTrip ==
    (arg.fn = "lzf_decompress" /\ pc # "call") =>
        /\ ret.ok => Len(ret.val.b) = arg.expected_length
        /\ (Plain(arg.chunks, <<>>).ok /\ arg.cut = 0) =>
              IF arg.expected_length = Len(Plain(arg.chunks, <<>>).out)
              THEN /\ pc = "returned"
                   /\ ret.val = Bytes(Plain(arg.chunks, <<>>).out)
              ELSE /\ pc = "raised"
                   /\ err = "CorruptLzf"

\* "abc" and a back-reference that repeats ten bytes from three back, the
\* copy running over the bytes it has just made: thirteen bytes returned
C12_Witness ==
    /\ pc = "returned"
    /\ arg.fn = "lzf_decompress"
    /\ arg.chunks = <<Lit(<<98, 99, 100>>), Ref(10, 3)>>
    /\ ret.val = Bytes(<<98, 99, 100, 98, 99, 100, 98, 99, 100, 98, 99, 100, 98>>)

\* C17: lzf_decompress copies only from the output produced so far: a
\* back-reference that reaches before the start of the output (its
\* distance exceeds the number of bytes produced) makes the decompression
\* fail.
C17_NoCopyFromOutside ==
    (arg.fn = "lzf_decompress" /\ pc # "call" /\ ~Plain(arg.chunks, <<>>).ok) => pc = "raised"

\* C13: read_ziplist_entry takes only the defined entry headers: those
\* with the top two bits 00, 01 or 10, and 0xC0, 0xD0, 0xE0, 0xF0, 0xFE and
\* 0xF1 .. 0xFD; every other header byte fails with CorruptZiplist and
\* yields no value.
C13_Defined(h) == h < 192 \/ h \in {192, 208, 224, 240, 254} \/ (h >= 241 /\ h <= 253)

C13_OnlyDefinedHeaders ==
    (arg.fn = "read_ziplist_entry" /\ pc # "call") =>
        IF C13_Defined(arg.entry.header[1])
        THEN pc = "returned"
        ELSE pc = "raised" /\ err = "CorruptZiplist"

\* C16: read_ziplist_entry gives each defined entry the value of the
\* header table (strings with the length in 6 bits, in 14 bits, in four
\* bytes with the highest first; signed little-endian integers of 16, 32
\* and 64 bits for 0xC0, 0xD0, 0xE0; a sign-extended integer of 24 bits
\* for 0xF0; a signed byte for 0xFE; 0 .. 12 for the headers 241 .. 253)
\* and moves the cursor over exactly the entry: the prev_length field of
\* one byte, or of five when the first is 254, the header and the payload.
C16_EntryDecoded ==
    (arg.fn = "read_ziplist_entry" /\ arg.made = "entry" /\ pc # "call") =>
        /\ pc = "returned"
        /\ ret.val = arg.entry.value
        /\ Len(arg.prev) = (IF arg.prev[1] = 254 THEN 5 ELSE 1)
        /\ pos = Len(arg.prev) + Len(arg.entry.header) + Len(arg.entry.payload)

\* the 24-bit integer -8388608 behind a prev_length field of five bytes,
\* with the terminator of a ziplist after it
C16_Witness ==
    /\ pc = "returned"
    /\ arg.fn = "read_ziplist_entry"
    /\ arg.prev = <<254, 44, 1, 0, 0>>
    /\ arg.entry.header = <<240>>
    /\ arg.rest = <<255>>
    /\ ret.val = IntV(0 - 8388608)
    /\ pos = 9

\* C14: an intset whose encoding field is not 2, 4 or 8 fails with
\* CorruptIntset whatever its number of entries, zero included, and no
\* start_set ... end_set pair is completed for the key.
C14_InvalidEncodingFails ==
    (arg.fn = "read_object" /\ arg.made = "intset" /\ pc # "call"
        /\ arg.encoding \notin {2, 4, 8}) =>
        /\ pc = "raised"
        /\ err = "CorruptIntset"
        /\ \A i \in 1..Len(events) : events[i].ev # "end_set"

\* C15: the ziplist readers of a list, a sorted set and a hash.
C15_Paired == arg.tag \in {REDIS_RDB_TYPE_ZSET_ZIPLIST, REDIS_RDB_TYPE_HASH_ZIPLIST}

C15_Ended == \E i \in 1..Len(events) : events[i].ev \in {"end_list", "end_sorted_set", "end_hash"}

\* the byte after the count entries, -1 for none: the prev_length (0) of
\* the next entry when the buffer has more entries than it says, what
\* stands for the terminator when it has as many, none when it has fewer
C15_ByteAfter ==
    IF arg.count < Len(arg.entries) THEN 0
    ELSE IF arg.count = Len(arg.entries) /\ arg.term # <<>> THEN arg.term[1]
    ELSE 0 - 1

=============================================================================
